---- MODULE Spec2Model ----
(***************************************************************************)
(* A model of huffman.py: encode() builds a frequency table, a Huffman     *)
(* tree (heapq min-heap of TreeNode ordered by freq only), a code book     *)
(* (tree_dfs), and a hex-packed payload with a count of stripped leading   *)
(* zero bits; decode() rebuilds the bit string and scans it.               *)
(*                                                                         *)
(* Python str values are sequences of one-character strings.  TreeNode     *)
(* objects live in the store `nodes` and are referred to by their index;   *)
(* None is the index 0.                                                    *)
(***************************************************************************)
EXTENDS Naturals, Sequences, FiniteSets

\* ---------------------------------------------------------------- bounds

\* Number of distinct characters an input file may draw from.
NumSyms == 4

\* Longest input file, in characters.
MaxLen == 4

\* Most TreeNode objects a hand-built tree holds (tree_dfs on arbitrary trees).
MaxNodes == 5

\* Longest binary expansion of a hand-made payload (decode on arbitrary artifacts).
MaxBits == 4

\* Most leading zero bits recorded in a hand-made artifact.
MaxZeros == 1

AllSymbols == <<"\n", "a", "b", "c", "d", "e">>

Alphabet == {AllSymbols[k] : k \in 1..NumSyms}

RECURSIVE SeqsUpTo(_, _)
SeqsUpTo(S, n) ==
    IF n = 0 THEN {<<>>}
    ELSE LET shorter == SeqsUpTo(S, n - 1)
         IN shorter \cup {Append(q, x) : q \in {t \in shorter : Len(t) = n - 1}, x \in S}

Inputs == SeqsUpTo(Alphabet, MaxLen)

\* ------------------------------------------------------- Python builtins

None == 0

BinDigits == <<"0", "1">>

HexDigits == <<"0", "1", "2", "3", "4", "5", "6", "7",
               "8", "9", "a", "b", "c", "d", "e", "f">>

DigitVal(digits, ch) == (CHOOSE k \in DOMAIN digits : digits[k] = ch) - 1

\* The value of a digit string in the given base (most significant first).
ParseDigits(digits, base, str) ==
    LET val[n \in 0..Len(str)] ==
            IF n = 0 THEN 0 ELSE val[n - 1] * base + DigitVal(digits, str[n])
    IN val[Len(str)]

\* The digits of n in the given base, "0" for 0, no leading zero otherwise.
RECURSIVE FormatDigits(_, _, _)
FormatDigits(digits, base, n) ==
    IF n < base THEN <<digits[n + 1]>>
    ELSE Append(FormatDigits(digits, base, n \div base), digits[(n % base) + 1])

\* int(str, 2); the empty string is a ValueError, reported by the caller.
int2(str) == ParseDigits(BinDigits, 2, str)

\* hex(n): "0x" and the hexadecimal digits.
hex(n) == <<"0", "x">> \o FormatDigits(HexDigits, 16, n)

\* int(str, 16): an optional "0x" prefix, then hexadecimal digits.
int16(str) ==
    IF Len(str) >= 2 /\ str[1] = "0" /\ str[2] = "x"
    THEN ParseDigits(HexDigits, 16, SubSeq(str, 3, Len(str)))
    ELSE ParseDigits(HexDigits, 16, str)

\* bin(n)[2:]: the binary digits without the "0b" prefix.
bin(n) == FormatDigits(BinDigits, 2, n)

\* The concatenation of a sequence of strings ("".join).
RECURSIVE join(_)
join(strs) == IF strs = <<>> THEN <<>> ELSE Head(strs) \o join(Tail(strs))

\* {v: k for k, v in d.items()} for a dict whose values are pairwise distinct.
InvertDict(d) ==
    [v \in {d[k] : k \in DOMAIN d} |-> CHOOSE k \in DOMAIN d : d[k] = v]

\* --------------------------------------------------------------- TreeNode

TreeNode(letter, num) ==
    [letter |-> letter, freq |-> num, left |-> None, right |-> None,
     encoding |-> <<>>]

\* A comparison the wrong way round (a max-heap).
lt_reversed(store, a, b) == store[a].freq > store[b].freq

\* TreeNode.__lt__ on two objects of the store.
lt(store, a, b) == store[a].freq < store[b].freq

\* ------------------------------------------------------------------ heapq
\* Heap positions are Python's (from 0); position p is element p + 1.

RECURSIVE siftdown(_, _, _, _, _)
siftdown(store, heap, startpos, pos, newitem) ==
    IF pos > startpos
    THEN LET parentpos == (pos - 1) \div 2
             parent == heap[parentpos + 1]
         IN IF lt(store, newitem, parent)
            THEN siftdown(store, [heap EXCEPT ![pos + 1] = parent],
                          startpos, parentpos, newitem)
            ELSE [heap EXCEPT ![pos + 1] = newitem]
    ELSE [heap EXCEPT ![pos + 1] = newitem]

RECURSIVE siftup(_, _, _, _, _)
siftup(store, heap, startpos, pos, newitem) ==
    LET endpos == Len(heap)
        childpos == 2 * pos + 1
        rightpos == childpos + 1
        pick == IF rightpos < endpos
                   /\ ~lt(store, heap[childpos + 1], heap[rightpos + 1])
                THEN rightpos ELSE childpos
    IN IF childpos < endpos
       THEN siftup(store, [heap EXCEPT ![pos + 1] = heap[pick + 1]],
                   startpos, pick, newitem)
       ELSE siftdown(store, heap, startpos, pos, newitem)

heappush(store, heap, item) ==
    siftdown(store, Append(heap, item), 0, Len(heap), item)

\* heappop of a non-empty heap: the item returned and the heap left.
heappop(store, heap) ==
    LET lastelt == heap[Len(heap)]
        rest == SubSeq(heap, 1, Len(heap) - 1)
    IN IF rest # <<>>
       THEN [item |-> rest[1], heap |-> siftup(store, rest, 0, 0, lastelt)]
       ELSE [item |-> lastelt, heap |-> rest]

\* --------------------------------------------------------------- tree_dfs

\* A traversal that appends "1" on both sides.
RECURSIVE tree_dfs_same_bit(_, _, _, _)
tree_dfs_same_bit(store, node, curstr, lvs) ==
    IF node = None
    THEN [nodes |-> store, leaves |-> lvs]
    ELSE IF store[node].right = None /\ store[node].left = None
    THEN [nodes |-> [store EXCEPT ![node].encoding = curstr],
          leaves |-> Append(lvs, node)]
    ELSE LET r == IF store[node].right # None
                  THEN tree_dfs_same_bit(store, store[node].right,
                                         Append(curstr, "1"), lvs)
                  ELSE [nodes |-> store, leaves |-> lvs]
         IN IF store[node].left # None
            THEN tree_dfs_same_bit(r.nodes, store[node].left,
                                   Append(curstr, "1"), r.leaves)
            ELSE r

\* A traversal with the two bits exchanged: "0" to the right, "1" to the left.
RECURSIVE tree_dfs_swapped(_, _, _, _)
tree_dfs_swapped(store, node, curstr, lvs) ==
    IF node = None
    THEN [nodes |-> store, leaves |-> lvs]
    ELSE IF store[node].right = None /\ store[node].left = None
    THEN [nodes |-> [store EXCEPT ![node].encoding = curstr],
          leaves |-> Append(lvs, node)]
    ELSE LET r == IF store[node].right # None
                  THEN tree_dfs_swapped(store, store[node].right,
                                        Append(curstr, "0"), lvs)
                  ELSE [nodes |-> store, leaves |-> lvs]
         IN IF store[node].left # None
            THEN tree_dfs_swapped(r.nodes, store[node].left,
                                  Append(curstr, "1"), r.leaves)
            ELSE r

\* tree_dfs(node, curstr, leaves): the store and the leaves list afterwards.
RECURSIVE tree_dfs(_, _, _, _)
tree_dfs(store, node, curstr, lvs) ==
    IF node = None
    THEN [nodes |-> store, leaves |-> lvs]
    ELSE IF store[node].right = None /\ store[node].left = None
    THEN [nodes |-> [store EXCEPT ![node].encoding = curstr],
          leaves |-> Append(lvs, node)]
    ELSE LET r == IF store[node].right # None
                  THEN tree_dfs(store, store[node].right, Append(curstr, "1"), lvs)
                  ELSE [nodes |-> store, leaves |-> lvs]
         IN IF store[node].left # None
            THEN tree_dfs(r.nodes, store[node].left, Append(curstr, "0"), r.leaves)
            ELSE r

\* -------------------------------------------------------------- make_dict

\* A count that starts over at 1 instead of growing.
DictIncr_reset(d, char) ==
    IF \E k \in DOMAIN d : d[k][1] = char
    THEN [k \in DOMAIN d |-> IF d[k][1] = char THEN <<char, 1>> ELSE d[k]]
    ELSE Append(d, <<char, 1>>)

\* freq_dict[char] += 1 on an insertion-ordered dict of <<key, count>> pairs.
DictIncr(d, char) ==
    IF \E k \in DOMAIN d : d[k][1] = char
    THEN [k \in DOMAIN d |-> IF d[k][1] = char THEN <<char, d[k][2] + 1>> ELSE d[k]]
    ELSE Append(d, <<char, 1>>)

make_dict(data) ==
    LET freq_dict[n \in 0..Len(data)] ==
            IF n = 0 THEN <<>> ELSE DictIncr(freq_dict[n - 1], <<data[n]>>)
    IN freq_dict[Len(data)]

\* ------------------------------------------------------------------ state

VARIABLES
    s,                 \* the input file's contents
    pc,                \* where the program is
    outcome,           \* "running", "ok", or the exception that ended the call
    freqs,             \* encode: make_dict(s)
    nodes,             \* the TreeNode objects
    minheap,           \* encode: the heap of node indices
    node1, node2,      \* encode: the two nodes popped last
    parent_node,       \* encode: the current parent node
    merges,            \* encode: iterations of the merge loop completed
    leaves,            \* the leaves list tree_dfs filled
    char_to_encoding,  \* encode: the code book
    int_str,           \* encode: the concatenated codes
    hex_str,           \* encode: hex(int(int_str, 2))
    bin_str,           \* encode: bin(int(hex_str, 16))[2:] and zeros put back
    num_zeros_to_add,  \* encode: zeros put back so far
    compressed,        \* compressed.txt: <<>> or <<hex_str, book, zeros>>
    d_bin_str,         \* decode: bin_str
    encoding_to_char,  \* decode: the inverse book
    original,          \* decode: characters emitted so far
    i,                 \* decode: scan index
    decoded            \* decoded.txt: <<>> while absent, else <<contents>>

vars == <<s, pc, outcome, freqs, nodes, minheap, node1, node2, parent_node,
          merges, leaves, char_to_encoding, int_str, hex_str, bin_str,
          num_zeros_to_add, compressed, d_bin_str, encoding_to_char,
          original, i, decoded>>

encodeVars == <<freqs, nodes, minheap, node1, node2, parent_node, merges,
                leaves, char_to_encoding, int_str, hex_str, bin_str,
                num_zeros_to_add>>

decodeVars == <<d_bin_str, encoding_to_char, original, i, decoded>>

Blank ==
    /\ outcome = "running"
    /\ freqs = <<>>
    /\ nodes = <<>>
    /\ minheap = <<>>
    /\ node1 = None
    /\ node2 = None
    /\ parent_node = None
    /\ merges = 0
    /\ leaves = <<>>
    /\ char_to_encoding = <<>>
    /\ int_str = <<>>
    /\ hex_str = <<>>
    /\ bin_str = <<>>
    /\ num_zeros_to_add = 0
    /\ d_bin_str = <<>>
    /\ encoding_to_char = <<>>
    /\ original = <<>>
    /\ i = 0
    /\ decoded = <<>>

\* encode(file) is called on a file holding s; no compressed.txt yet.
Init ==
    /\ s \in Inputs
    /\ pc = "encode"
    /\ compressed = <<>>
    /\ Blank

\* ----------------------------------------------------------------- encode

\* The for loop of lines 92-93 from item n on: one leaf per dict item, pushed
\* in dict order.
RECURSIVE PushLeaves(_, _, _, _)
PushLeaves(fq, n, store, heap) ==
    IF n > Len(fq) THEN [nodes |-> store, heap |-> heap]
    ELSE PushLeaves(fq, n + 1,
                    Append(store, TreeNode(fq[n][1], fq[n][2])),
                    heappush(Append(store, TreeNode(fq[n][1], fq[n][2])),
                             heap, Len(store) + 1))

\* Lines 78-97: read the file, count, make and push the leaves.
EncodeBuildHeap ==
    /\ pc = "encode"
    /\ \E fq \in {make_dict(s)} :
       \E pushed \in {PushLeaves(fq, 1, <<>>, <<>>)} :
          /\ freqs' = fq
          /\ nodes' = pushed.nodes
          /\ minheap' = pushed.heap
    /\ parent_node' = None
    /\ pc' = "merge"
    /\ UNCHANGED <<s, outcome, node1, node2, merges, leaves, char_to_encoding,
                   int_str, hex_str, bin_str, num_zeros_to_add, compressed>>
    /\ UNCHANGED decodeVars

\* The parent of line 101-103 for two popped nodes.
MakeParent(store, a, b) ==
    [TreeNode(store[a].letter \o store[b].letter, store[a].freq + store[b].freq)
        EXCEPT !.left = a, !.right = b]

\* Lines 99-107: one iteration of the while True loop.  heappop of an empty
\* list raises IndexError, which nothing catches.
EncodeMerge ==
    /\ pc = "merge"
    /\ IF Len(minheap) = 0
       THEN /\ outcome' = "IndexError"
            /\ pc' = "crashed"
            /\ UNCHANGED <<nodes, minheap, node1, node2, parent_node, merges>>
       ELSE \E p1 \in {heappop(nodes, minheap)} :
            IF Len(p1.heap) = 0
            THEN /\ outcome' = "IndexError"
                 /\ pc' = "crashed"
                 /\ minheap' = p1.heap
                 /\ UNCHANGED <<nodes, node1, node2, parent_node, merges>>
            ELSE \E p2 \in {heappop(nodes, p1.heap)} :
                 \E store \in {Append(nodes, MakeParent(nodes, p1.item, p2.item))} :
                    /\ node1' = p1.item
                    /\ node2' = p2.item
                    /\ nodes' = store
                    /\ parent_node' = Len(store)
                    /\ merges' = merges + 1
                    /\ outcome' = outcome
                    /\ IF store[Len(store)].freq = Len(s)
                       THEN /\ minheap' = p2.heap
                            /\ pc' = "codes"
                       ELSE /\ minheap' = heappush(store, p2.heap, Len(store))
                            /\ pc' = "merge"
    /\ UNCHANGED <<s, freqs, leaves, char_to_encoding, int_str, hex_str, bin_str,
                   num_zeros_to_add, compressed>>
    /\ UNCHANGED decodeVars

\* Lines 114-118: encoding_to_char filled leaf by leaf; ok is FALSE once an
\* assert failed.
FillEncodingToChar(store, lvs) ==
    LET st[n \in 0..Len(lvs)] ==
            IF n = 0 THEN [ok |-> TRUE, dict |-> <<>>]
            ELSE LET prev == st[n - 1]
                     leaf == store[lvs[n]]
                 IN IF ~prev.ok THEN prev
                    ELSE IF Len(leaf.letter) # 1 \/ leaf.encoding \in DOMAIN prev.dict
                    THEN [ok |-> FALSE, dict |-> prev.dict]
                    ELSE [ok |-> TRUE,
                          dict |-> [e \in DOMAIN prev.dict \cup {leaf.encoding} |->
                                      IF e = leaf.encoding THEN leaf.letter
                                      ELSE prev.dict[e]]]
    IN st[Len(lvs)]

\* Lines 112-130: the code book, the payload and its hexadecimal form.
EncodeCodeBook ==
    /\ pc = "codes"
    /\ \E dfs \in {tree_dfs(nodes, parent_node, <<>>, <<>>)} :
       \E e2c \in {FillEncodingToChar(dfs.nodes, dfs.leaves)} :
       \E c2e \in {InvertDict(e2c.dict)} :
          /\ nodes' = dfs.nodes
          /\ leaves' = dfs.leaves
          /\ IF ~e2c.ok
             THEN /\ outcome' = "AssertionError"
                  /\ pc' = "crashed"
                  /\ UNCHANGED <<char_to_encoding, int_str, hex_str, bin_str>>
             ELSE IF \E n \in 1..Len(s) : <<s[n]>> \notin DOMAIN c2e
             THEN /\ outcome' = "KeyError"
                  /\ pc' = "crashed"
                  /\ char_to_encoding' = c2e
                  /\ UNCHANGED <<int_str, hex_str, bin_str>>
             ELSE \E istr \in {join([n \in 1..Len(s) |-> c2e[<<s[n]>>]])} :
                  IF istr = <<>>
                  THEN /\ outcome' = "ValueError"
                       /\ pc' = "crashed"
                       /\ char_to_encoding' = c2e
                       /\ int_str' = istr
                       /\ UNCHANGED <<hex_str, bin_str>>
                  ELSE \E hstr \in {hex(int2(istr))} :
                       /\ outcome' = outcome
                       /\ pc' = "zeros"
                       /\ char_to_encoding' = c2e
                       /\ int_str' = istr
                       /\ hex_str' = hstr
                       /\ bin_str' = bin(int16(hstr))
    /\ num_zeros_to_add' = 0
    /\ UNCHANGED <<s, freqs, minheap, node1, node2, parent_node, merges, compressed>>
    /\ UNCHANGED decodeVars

\* Lines 131-133: one iteration of the loop that puts the leading zeros back.
EncodeAddZero ==
    /\ pc = "zeros"
    /\ bin_str # int_str
    /\ bin_str' = <<"0">> \o bin_str
    /\ num_zeros_to_add' = num_zeros_to_add + 1
    /\ UNCHANGED <<s, pc, outcome, freqs, nodes, minheap, node1, node2,
                   parent_node, merges, leaves, char_to_encoding, int_str,
                   hex_str, compressed>>
    /\ UNCHANGED decodeVars

\* Lines 137-150: compressed.txt is replaced, read back and compared.
EncodeWrite ==
    /\ pc = "zeros"
    /\ bin_str = int_str
    /\ compressed' = <<hex_str, char_to_encoding, num_zeros_to_add>>
    /\ outcome' = "ok"
    /\ pc' = "encoded"
    /\ UNCHANGED <<s>>
    /\ UNCHANGED encodeVars
    /\ UNCHANGED decodeVars

\* ----------------------------------------------------------------- decode

\* One zero too many (range(num_zeros_to_add + 1)).
Zeros_one_more(n) == [k \in 1..(n + 1) |-> "0"]

\* Lines 163-164: the zeros decode puts in front of the binary expansion.
Zeros(n) == [k \in 1..n |-> "0"]

\* bin_str[a:b] for 0 <= a <= b <= len(bin_str).
Slice(str, a, b) == SubSeq(str, a + 1, b)

\* Line 171-172: the inner while loop, from j to the value it stops at.
RECURSIVE ScanEnd(_, _, _, _)
ScanEnd(str, from, j, keys) ==
    IF j < Len(str) /\ Slice(str, from, j) \notin keys
    THEN ScanEnd(str, from, j + 1, keys)
    ELSE j

\* A test that lets a code ending at the last bit through.
ScanBreaks_strict(str, j) == j > Len(str)

\* Line 173: the test that leaves the outer loop.
ScanBreaks(str, j) == j >= Len(str)

\* Lines 158-168: load compressed.txt and rebuild the bit string.
DecodeRead ==
    /\ pc = "encoded"
    /\ compressed # <<>>
    /\ d_bin_str' = Zeros(compressed[3]) \o bin(int16(compressed[1]))
    /\ encoding_to_char' = InvertDict(compressed[2])
    /\ original' = <<>>
    /\ i' = 0
    /\ outcome' = "running"
    /\ pc' = "scan"
    /\ UNCHANGED <<s, compressed, decoded>>
    /\ UNCHANGED encodeVars

\* Lines 169-176: one iteration of the outer while loop (or its exit).
DecodeScan ==
    /\ pc = "scan"
    /\ IF ~(i < Len(d_bin_str))
       THEN /\ pc' = "write"
            /\ UNCHANGED <<original, i>>
       ELSE LET j == ScanEnd(d_bin_str, i, i + 1, DOMAIN encoding_to_char)
            IN IF ScanBreaks(d_bin_str, j)
               THEN /\ pc' = "write"
                    /\ UNCHANGED <<original, i>>
               ELSE /\ original' = original \o encoding_to_char[Slice(d_bin_str, i, j)]
                    /\ i' = j
                    /\ pc' = "scan"
    /\ UNCHANGED <<s, outcome, compressed, d_bin_str, encoding_to_char, decoded>>
    /\ UNCHANGED encodeVars

\* Lines 180-186: decoded.txt is replaced by original and a newline.
DecodeWrite ==
    /\ pc = "write"
    /\ decoded' = <<original \o <<"\n">>>>
    /\ outcome' = "ok"
    /\ pc' = "decoded"
    /\ UNCHANGED <<s, compressed, d_bin_str, encoding_to_char, original, i>>
    /\ UNCHANGED encodeVars

\* encode(file) followed by decode('compressed.txt'), as encode_decode_test runs them.
Next ==
    \/ EncodeBuildHeap
    \/ EncodeMerge
    \/ EncodeCodeBook
    \/ EncodeAddZero
    \/ EncodeWrite
    \/ DecodeRead
    \/ DecodeScan
    \/ DecodeWrite

Spec == Init /\ [][Next]_vars

\* The program runs to completion: a call that can take a step takes it.
FairSpec == Spec /\ WF_vars(Next)

\* ------------------------------------------- decode on arbitrary artifacts

\* Longest code of a hand-made code book.
MaxCodeLen == 2

Codes == SeqsUpTo({"0", "1"}, MaxCodeLen) \ {<<>>}

BookKeys == {<<"a">>, <<"b">>}

\* Code books with pairwise distinct codes.
Books == {b \in [BookKeys -> Codes] : \A x, y \in BookKeys : x # y => b[x] # b[y]}

Artifacts ==
    {<<hex(v), b, z>> : v \in 0..(2 ^ MaxBits - 1), b \in Books, z \in 0..MaxZeros}

\* decode(file) is called on a compressed.txt somebody supplied.
InitUnpack ==
    /\ s = <<>>
    /\ pc = "encoded"
    /\ compressed \in Artifacts
    /\ Blank

NextUnpack ==
    \/ DecodeRead
    \/ DecodeScan
    \/ DecodeWrite

SpecUnpack == InitUnpack /\ [][NextUnpack]_vars

\* ------------------------------------------- tree_dfs on arbitrary trees

NodeNames == <<"r", "a", "b", "c", "d", "e", "f", "g">>

\* Lines 217-226 of tree_dfs_test: a tree is built one TreeNode at a time,
\* each new node hung on a free side of a node already in the tree.
InitDfs ==
    /\ s = <<>>
    /\ pc = "build"
    /\ compressed = <<>>
    /\ outcome = "running"
    /\ freqs = <<>>
    /\ nodes = <<TreeNode(<<NodeNames[1]>>, 10)>>
    /\ minheap = <<>>
    /\ node1 = None
    /\ node2 = None
    /\ parent_node = None
    /\ merges = 0
    /\ leaves = <<>>
    /\ char_to_encoding = <<>>
    /\ int_str = <<>>
    /\ hex_str = <<>>
    /\ bin_str = <<>>
    /\ num_zeros_to_add = 0
    /\ d_bin_str = <<>>
    /\ encoding_to_char = <<>>
    /\ original = <<>>
    /\ i = 0
    /\ decoded = <<>>

treeUnchanged ==
    <<s, outcome, freqs, minheap, node1, node2, parent_node, merges,
      char_to_encoding, int_str, hex_str, bin_str, num_zeros_to_add,
      compressed, d_bin_str, encoding_to_char, original, i, decoded>>

\* a = TreeNode(..); p.left = a
SetLeft(p) ==
    /\ pc = "build"
    /\ Len(nodes) < MaxNodes
    /\ nodes[p].left = None
    /\ nodes' = Append([nodes EXCEPT ![p].left = Len(nodes) + 1],
                       TreeNode(<<NodeNames[Len(nodes) + 1]>>, Len(nodes)))
    /\ UNCHANGED <<pc, leaves>>
    /\ UNCHANGED treeUnchanged

\* b = TreeNode(..); p.right = b
SetRight(p) ==
    /\ pc = "build"
    /\ Len(nodes) < MaxNodes
    /\ nodes[p].right = None
    /\ nodes' = Append([nodes EXCEPT ![p].right = Len(nodes) + 1],
                       TreeNode(<<NodeNames[Len(nodes) + 1]>>, Len(nodes)))
    /\ UNCHANGED <<pc, leaves>>
    /\ UNCHANGED treeUnchanged

\* Line 228: tree_dfs(root, "", [])
RunTreeDfs ==
    /\ pc = "build"
    /\ LET dfs == tree_dfs(nodes, 1, <<>>, <<>>)
       IN /\ nodes' = dfs.nodes
          /\ leaves' = dfs.leaves
    /\ pc' = "dfs_done"
    /\ UNCHANGED treeUnchanged

NextDfs ==
    \/ \E p \in 1..MaxNodes : p <= Len(nodes) /\ SetLeft(p)
    \/ \E p \in 1..MaxNodes : p <= Len(nodes) /\ SetRight(p)
    \/ RunTreeDfs

SpecDfs == InitDfs /\ [][NextDfs]_vars

\* ============================================================ properties

Exceptions == {"IndexError", "AssertionError", "KeyError", "ValueError"}

\* The distinct characters of a string, and how many there are.
Distinct(str) == {str[k] : k \in DOMAIN str}

NDistinct(str) == Cardinality(Distinct(str))

Count(str, ch) == Cardinality({k \in DOMAIN str : str[k] = ch})

IsPrefix(a, b) == Len(a) <= Len(b) /\ SubSeq(b, 1, Len(a)) = a

IsLeaf(store, n) == store[n].left = None /\ store[n].right = None

\* The program has a code book (encode got past line 121).
HasBook == pc \in {"zeros", "encoded", "scan", "write", "decoded"}

\* The merge loop has ended normally (encode got past line 107).
TreeBuilt == pc \in {"codes", "zeros", "encoded", "scan", "write", "decoded"}

\* decode has rebuilt its bit string (got past line 164).
Unpacked == pc \in {"scan", "write", "decoded"}

\* The codes of the characters of str, in order, under a code book.
Payload(book, str) == join([n \in 1..Len(str) |-> book[<<str[n]>>]])

\* ---- C1
\* C1 (round trip): for every non-empty input S, the output decode writes
\* for the artifact encode produced from S is exactly S.
C1_RoundTrip == (s # <<>> /\ pc = "decoded") => decoded = <<s>>

\* ---- C3
\* C3 (single distinct symbol): for every input of n >= 1 occurrences of one
\* symbol, encode raises nothing, the symbol gets a 1-bit code, the payload
\* is n bits each equal to that code, and decoding reproduces the input.
C3_SingleSymbol ==
    NDistinct(s) = 1 =>
        /\ outcome \notin Exceptions
        /\ HasBook =>
              /\ DOMAIN char_to_encoding = {<<s[1]>>}
              /\ Len(char_to_encoding[<<s[1]>>]) = 1
              /\ int_str = Payload(char_to_encoding, s)
              /\ Len(int_str) = Len(s)
        /\ pc = "decoded" => decoded = <<s>>

\* ---- C4
\* C4 (empty input): encoding the empty sequence raises nothing and yields an
\* empty payload and an empty code book; decoding that yields the empty
\* sequence.
C4_EmptyInput ==
    s = <<>> =>
        /\ outcome \notin Exceptions
        /\ HasBook => (DOMAIN char_to_encoding = {} /\ int_str = <<>>)
        /\ pc = "decoded" => decoded = <<<<>>>>

\* ---- C5
\* C5 (prefix-free code book): for every input with at least two distinct
\* symbols encode raises nothing (the assert of line 117 never fails), its
\* code book has exactly one code per distinct input symbol, and no code is
\* a prefix of the code of another symbol.
C5_PrefixFree ==
    NDistinct(s) >= 2 =>
        /\ outcome \notin Exceptions
        /\ HasBook =>
              /\ DOMAIN char_to_encoding = {<<ch>> : ch \in Distinct(s)}
              /\ Len(leaves) = NDistinct(s)
              /\ \A x, y \in DOMAIN char_to_encoding :
                    x # y => ~IsPrefix(char_to_encoding[x], char_to_encoding[y])

\* A book of three or more codes of different lengths has been built.
C5_Witness ==
    /\ pc = "encoded"
    /\ NDistinct(s) >= 3
    /\ \E x, y \in DOMAIN char_to_encoding :
          Len(char_to_encoding[x]) = 1 /\ Len(char_to_encoding[y]) = 2

\* ---- C7
\* C7 (frequency invariant): make_dict returns one entry per distinct input
\* symbol, its count the number of occurrences, so the counts sum to the
\* input length; the root of the tree encode builds has that sum as its
\* count, and every internal node's count is the sum of its children's.
SumCounts(d) ==
    LET sum[n \in 0..Len(d)] == IF n = 0 THEN 0 ELSE sum[n - 1] + d[n][2]
    IN sum[Len(d)]

\* C7: the table counts every symbol exactly; the root and every internal
\* node carry the sum of what is beneath them.
C7_FrequencyInvariant ==
    /\ pc # "encode" =>
          /\ \A k, m \in DOMAIN freqs : freqs[k][1] = freqs[m][1] => k = m
          /\ {freqs[k][1] : k \in DOMAIN freqs} = {<<ch>> : ch \in Distinct(s)}
          /\ \A k \in DOMAIN freqs : freqs[k][2] = Count(s, freqs[k][1][1])
          /\ SumCounts(freqs) = Len(s)
    /\ TreeBuilt => nodes[parent_node].freq = SumCounts(freqs)
    /\ \A n \in DOMAIN nodes :
          ~IsLeaf(nodes, n) =>
              nodes[n].freq = nodes[nodes[n].left].freq + nodes[nodes[n].right].freq

\* A tree over three or more symbols, one of them repeated, has a root.
C7_Witness ==
    /\ pc = "codes"
    /\ Len(freqs) >= 3
    /\ \E k \in DOMAIN freqs : freqs[k][2] >= 2
    /\ nodes[parent_node].freq = Len(s)

\* ---- C2
\* C2 (corruption detection): when decode is given bits and a code book such
\* that, from the scan position, the remaining bits are exhausted without
\* matching any code of the book, it ends in a failure; it never completes
\* normally with the output written so far.
UnmatchedTail ==
    /\ i < Len(d_bin_str)
    /\ \A j \in (i + 1)..Len(d_bin_str) :
          Slice(d_bin_str, i, j) \notin DOMAIN encoding_to_char

\* C2: a decode that ended normally did not stop on bits matching no code.
C2_CorruptionDetected == (pc = "decoded" /\ UnmatchedTail) => outcome # "ok"

\* ---- C6
\* C6 (exact bit-length preservation): for every input encode accepts, the
\* bit string decode rebuilds (num_zeros_to_add zeros, then the binary
\* expansion of hex_str) is the concatenation of the input symbols' codes in
\* input order, leading zeros included; while zeros are being counted
\* bin_str is the tail of int_str that is still missing num_zeros_to_add
\* zeros; and the counting loop ends.
C6_Counting ==
    pc = "zeros" =>
        /\ Len(bin_str) <= Len(int_str)
        /\ bin_str = SubSeq(int_str, Len(int_str) - Len(bin_str) + 1, Len(int_str))
        /\ \A k \in 1..(Len(int_str) - Len(bin_str)) : int_str[k] = "0"
        /\ Len(bin_str) = Len(bin(int16(hex_str))) + num_zeros_to_add

C6_Rebuilt ==
    Unpacked =>
        /\ d_bin_str = Payload(compressed[2], s)
        /\ compressed = <<hex_str, char_to_encoding, num_zeros_to_add>>
        /\ \A k \in 1..num_zeros_to_add : d_bin_str[k] = "0"
        /\ num_zeros_to_add < Len(d_bin_str) => d_bin_str[num_zeros_to_add + 1] = "1"

\* C6: the counting loop keeps its bookkeeping exact and ends, and decode
\* rebuilds exactly the concatenated codes.
C6_BitLengthPreserved ==
    /\ [](C6_Counting /\ C6_Rebuilt)
    /\ (pc = "zeros") ~> (pc = "encoded")

\* decode has rebuilt a payload that starts with two or more zero bits.
C6_Witness ==
    /\ pc = "decoded"
    /\ num_zeros_to_add >= 2
    /\ d_bin_str[1] = "0"
    /\ d_bin_str[2] = "0"
    /\ Len(d_bin_str) > Len(bin(int16(compressed[1])))

\* ---- C8
\* C8 (merge loop): for every input with at least two distinct symbols, each
\* iteration pops the two smallest-count nodes, the heap never has fewer than
\* two nodes when an iteration starts, the loop ends exactly when the heap is
\* empty after the two pops, after (distinct symbols - 1) merges, and the
\* tree is strict binary with one leaf per distinct symbol.
RECURSIVE LeafSet(_, _)
LeafSet(store, n) ==
    IF n = None THEN {}
    ELSE IF IsLeaf(store, n) THEN {n}
    ELSE LeafSet(store, store[n].left) \cup LeafSet(store, store[n].right)

RECURSIVE SubtreeSize(_, _)
SubtreeSize(store, n) ==
    IF n = None THEN 0
    ELSE 1 + SubtreeSize(store, store[n].left) + SubtreeSize(store, store[n].right)

HeapSet == {minheap[k] : k \in DOMAIN minheap}

C8_PopsSmallest ==
    (merges > 0 /\ pc \in {"merge", "codes"}) =>
        /\ nodes[node1].freq <= nodes[node2].freq
        /\ nodes[parent_node].left = node1
        /\ nodes[parent_node].right = node2
        /\ \A h \in HeapSet \ {parent_node} : nodes[node2].freq <= nodes[h].freq

C8_Loop ==
    NDistinct(s) >= 2 =>
        /\ outcome # "IndexError"
        /\ pc = "merge" =>
              /\ Len(minheap) >= 2
              /\ Len(minheap) = NDistinct(s) - merges
        /\ TreeBuilt =>
              /\ minheap = <<>>
              /\ merges = NDistinct(s) - 1
              /\ \A n \in DOMAIN nodes :
                    (nodes[n].left = None) <=> (nodes[n].right = None)
              /\ SubtreeSize(nodes, parent_node) = 2 * NDistinct(s) - 1
              /\ Len(nodes) = 2 * NDistinct(s) - 1
              /\ {nodes[n].letter : n \in LeafSet(nodes, parent_node)}
                    = {<<ch>> : ch \in Distinct(s)}
              /\ Cardinality(LeafSet(nodes, parent_node)) = NDistinct(s)

\* C8: every iteration pops the two smallest nodes of a heap of two or more,
\* and the loop ends, with the heap empty, after (distinct symbols - 1) merges
\* on a strict binary tree with one leaf per distinct symbol.
C8_MergeLoopTerminates ==
    /\ [](C8_PopsSmallest /\ C8_Loop)
    /\ (NDistinct(s) >= 2 /\ pc = "merge") ~> (pc = "codes")

\* The loop has ended after three merges, with counts that tied on the way.
C8_Witness ==
    /\ pc = "codes"
    /\ merges = 3
    /\ minheap = <<>>
    /\ \E n, m \in DOMAIN nodes : n # m /\ nodes[n].freq = nodes[m].freq

\* ---- C9
\* C9 (tree_dfs path encoding): for every binary tree, nodes with one child
\* included, tree_dfs from the root with an empty string leaves on every
\* leaf the path to it ('0' per step to a left child, '1' per step to a
\* right child), and the leaves list holds every leaf once and no other node.
ParentOf(store, n) ==
    CHOOSE p \in DOMAIN store : store[p].left = n \/ store[p].right = n

RECURSIVE PathFromRoot(_, _)
PathFromRoot(store, n) ==
    IF n = 1 THEN <<>>
    ELSE LET p == ParentOf(store, n)
         IN Append(PathFromRoot(store, p), IF store[p].left = n THEN "0" ELSE "1")

\* C9: after tree_dfs every leaf holds its root-to-leaf path and is in the
\* leaves list exactly once; no internal node is in the list.
C9_PathEncoding ==
    pc = "dfs_done" =>
        /\ \A n \in DOMAIN nodes :
              IsLeaf(nodes, n) =>
                  /\ nodes[n].encoding = PathFromRoot(nodes, n)
                  /\ Cardinality({k \in DOMAIN leaves : leaves[k] = n}) = 1
        /\ \A k \in DOMAIN leaves : IsLeaf(nodes, leaves[k])

\* The tree of tree_dfs_test: root r with a on the left and b on the right,
\* a with only a left child c, b with only a right child d.
C9_Witness ==
    /\ pc = "dfs_done"
    /\ Len(nodes) = 5
    /\ \E a, b, c, d \in DOMAIN nodes :
          /\ nodes[1].left = a /\ nodes[1].right = b
          /\ nodes[a].left = c /\ nodes[a].right = None
          /\ nodes[b].left = None /\ nodes[b].right = d
          /\ nodes[c].encoding = <<"0", "0">>
          /\ nodes[d].encoding = <<"1", "1">>
          /\ Len(leaves) = 2

\* ---- C10
\* C10 (what decode writes): for every input S with at least two distinct
\* symbols, decode of encode's artifact ends; the scan index grows with every
\* symbol emitted; the code that ends at the last bit of the payload is not
\* emitted; and decoded.txt holds the first len(S) - 1 symbols of S and a
\* newline, which is S exactly when S ends with a newline.
C10_Output ==
    (NDistinct(s) >= 2 /\ pc \in {"write", "decoded"}) =>
        /\ original = SubSeq(s, 1, Len(s) - 1)
        /\ i < Len(d_bin_str)
        /\ Slice(d_bin_str, i, Len(d_bin_str)) = char_to_encoding[<<s[Len(s)]>>]
        /\ pc = "decoded" =>
              /\ decoded = <<SubSeq(s, 1, Len(s) - 1) \o <<"\n">>>>
              /\ (decoded = <<s>>) <=> (s[Len(s)] = "\n")

====
